---- MODULE Spec2Model ----
(***************************************************************************)
(* Model of the Bento MCP server (src/src/index.ts): a stdio MCP server    *)
(* whose tools each resolve credentials from process.env, delegate one     *)
(* call to the Bento SDK and render the result as one text content item.   *)
(***************************************************************************)
EXTENDS Integers, Sequences, FiniteSets, TLC

(***************************************************************************)
(* JavaScript values.  Every value is a record tagged by t, so that values *)
(* of different JavaScript types can be compared.                          *)
(***************************************************************************)
Undefined == [t |-> "undefined"]
Null == [t |-> "null"]
Bool(b) == [t |-> "boolean", b |-> b]
Num(n) == [t |-> "number", n |-> n]
Str(s) == [t |-> "string", s |-> s]
Arr(items) == [t |-> "array", items |-> items]
\* an object is the sequence of its own enumerable properties, in property order
Obj(fields) == [t |-> "object", fields |-> fields]
Prop(k, v) == [k |-> k, v |-> v]
\* an instance of Error carrying a message
Err(message) == [t |-> "Error", message |-> message]

\* a presence test that takes the empty string for a value (x !== undefined && x !== null)
Truthy_EmptyIsPresent(v) ==
    CASE v.t = "undefined" -> FALSE
      [] v.t = "null" -> FALSE
      [] v.t = "boolean" -> v.b
      [] v.t = "number" -> v.n # 0
      [] OTHER -> TRUE

\* JavaScript ToBoolean, as used by !x, x ? a : b
Truthy(v) ==
    CASE v.t = "undefined" -> FALSE
      [] v.t = "null" -> FALSE
      [] v.t = "boolean" -> v.b
      [] v.t = "number" -> v.n # 0
      [] v.t = "string" -> v.s # ""
      [] OTHER -> TRUE

(***************************************************************************)
(* Text helpers standing for the JavaScript built-ins the code calls.      *)
(***************************************************************************)
RECURSIVE Spaces(_)
Spaces(n) ==
    IF n = 0 THEN "" ELSE " " \o Spaces(n - 1)

RECURSIVE Join(_, _)
\* Array.prototype.join on a sequence of strings
Join(strs, sep) ==
    IF Len(strs) = 0 THEN ""
    ELSE IF Len(strs) = 1 THEN strs[1]
    ELSE strs[1] \o sep \o Join(Tail(strs), sep)

RECURSIVE Escape(_, _)
\* JSON escaping of the characters of s from position i on
Escape(s, i) ==
    IF i > Len(s) THEN ""
    ELSE LET c == SubSeq(s, i, i)
             e == CASE c = "\"" -> "\\\""
                    [] c = "\\" -> "\\\\"
                    [] c = "\n" -> "\\n"
                    [] OTHER -> c
         IN e \o Escape(s, i + 1)

Quote(s) ==
    "\"" \o Escape(s, 1) \o "\""

RECURSIVE Stringify(_, _)
\* JSON.stringify(v, null, 2) of a value nested at indentation ind
Stringify(v, ind) ==
    CASE v.t = "null" -> "null"
      [] v.t = "undefined" -> "null"
      [] v.t = "boolean" -> IF v.b THEN "true" ELSE "false"
      [] v.t = "number" -> ToString(v.n)
      [] v.t = "string" -> Quote(v.s)
      [] v.t = "array" ->
            IF Len(v.items) = 0 THEN "[]"
            ELSE "[\n"
                 \o Join([j \in 1..Len(v.items) |->
                            Spaces(ind + 2) \o Stringify(v.items[j], ind + 2)], ",\n")
                 \o "\n" \o Spaces(ind) \o "]"
      [] v.t = "object" ->
            LET own == SelectSeq(v.fields, LAMBDA p : p.v.t # "undefined")
            IN IF Len(own) = 0 THEN "{}"
               ELSE "{\n"
                    \o Join([j \in 1..Len(own) |->
                               Spaces(ind + 2) \o Quote(own[j].k) \o ": "
                               \o Stringify(own[j].v, ind + 2)], ",\n")
                    \o "\n" \o Spaces(ind) \o "}"
      [] OTHER -> "{}"

RECURSIVE JSString(_)
\* String(v), also the conversion a template literal applies
JSString(v) ==
    CASE v.t = "undefined" -> "undefined"
      [] v.t = "null" -> "null"
      [] v.t = "boolean" -> IF v.b THEN "true" ELSE "false"
      [] v.t = "number" -> ToString(v.n)
      [] v.t = "string" -> v.s
      [] v.t = "array" ->
            Join([j \in 1..Len(v.items) |->
                    IF v.items[j].t \in {"undefined", "null"} THEN ""
                    ELSE JSString(v.items[j])], ",")
      [] v.t = "Error" -> "Error: " \o v.message
      [] OTHER -> "[object Object]"

\* v > 0 with JavaScript's numeric coercion of v
GreaterThanZero(v) ==
    CASE v.t = "number" -> v.n > 0
      [] v.t = "boolean" -> v.b
      [] OTHER -> FALSE

(***************************************************************************)
(* Helpers of index.ts.                                                    *)
(***************************************************************************)
\* formatResponse testing !data where it tests for null and undefined
formatResponse_Falsy(data) ==
    IF ~Truthy(data) THEN "No data returned"
    ELSE IF data.t = "boolean" THEN (IF data.b THEN "Success" ELSE "Operation failed")
    ELSE IF data.t = "number" THEN "Count: " \o ToString(data.n)
    ELSE Stringify(data, 0)

\* formatResponse answering "No data returned" for empty lists, objects and strings too
formatResponse_EmptyIsNoData(data) ==
    IF data.t = "null" \/ data.t = "undefined" THEN "No data returned"
    ELSE IF data.t = "array" /\ Len(data.items) = 0 THEN "No data returned"
    ELSE IF data.t = "object" /\ Len(data.fields) = 0 THEN "No data returned"
    ELSE IF data.t = "string" /\ data.s = "" THEN "No data returned"
    ELSE IF data.t = "boolean" THEN (IF data.b THEN "Success" ELSE "Operation failed")
    ELSE IF data.t = "number" THEN "Count: " \o ToString(data.n)
    ELSE Stringify(data, 0)

\* formatResponse(data)
formatResponse(data) ==
    IF data.t = "null" \/ data.t = "undefined" THEN "No data returned"
    ELSE IF data.t = "boolean" THEN (IF data.b THEN "Success" ELSE "Operation failed")
    ELSE IF data.t = "number" THEN "Count: " \o ToString(data.n)
    ELSE Stringify(data, 0)

\* v is a plain object with a string under the key "message"; that string
HasMessageField(v) ==
    v.t = "object" /\
        \E j \in 1..Len(v.fields) : v.fields[j].k = "message" /\ v.fields[j].v.t = "string"

MessageField(v) ==
    LET j == CHOOSE x \in 1..Len(v.fields) : v.fields[x].k = "message"
    IN  v.fields[j].v.s

\* handleError taking the message of anything that has one, Error instance or not
handleError_AnyMessage(error) ==
    IF error.t = "Error" THEN "Error: " \o error.message
    ELSE IF HasMessageField(error) THEN "Error: " \o MessageField(error)
    ELSE "Error: " \o JSString(error)

\* handleError(error)
handleError(error) ==
    IF error.t = "Error" THEN "Error: " \o error.message
    ELSE "Error: " \o JSString(error)

\* what a synchronous stretch of a handler ends with
Return(text) == [kind |-> "return", content |-> <<[type |-> "text", text |-> text]>>]
Throw(error) == [kind |-> "throw", error |-> error]
Await(call) == [kind |-> "await", call |-> call]

EnvNames == {"BENTO_PUBLISHABLE_KEY", "BENTO_SECRET_KEY", "BENTO_SITE_UUID"}

MissingEnvMessage ==
    "Missing required environment variables: BENTO_PUBLISHABLE_KEY, BENTO_SECRET_KEY, BENTO_SITE_UUID"

\* getBentoClient with the site identifier left out of the presence check
getBentoClient_NoSiteCheck(e) ==
    LET publishableKey == e["BENTO_PUBLISHABLE_KEY"]
        secretKey == e["BENTO_SECRET_KEY"]
        siteUuid == e["BENTO_SITE_UUID"]
    IN IF ~Truthy(publishableKey) \/ ~Truthy(secretKey)
       THEN Throw(Err(MissingEnvMessage))
       ELSE [kind |-> "value",
             value |-> [authentication |-> [publishableKey |-> publishableKey,
                                            secretKey |-> secretKey],
                        siteUuid |-> siteUuid]]

\* getBentoClient() reading process.env e: the Analytics client, or the fault thrown
getBentoClient(e) ==
    LET publishableKey == e["BENTO_PUBLISHABLE_KEY"]
        secretKey == e["BENTO_SECRET_KEY"]
        siteUuid == e["BENTO_SITE_UUID"]
    IN IF ~Truthy(publishableKey) \/ ~Truthy(secretKey) \/ ~Truthy(siteUuid)
       THEN Throw(Err(MissingEnvMessage))
       ELSE [kind |-> "value",
             value |-> [authentication |-> [publishableKey |-> publishableKey,
                                            secretKey |-> secretKey],
                        siteUuid |-> siteUuid]]

\* const bento = getBentoClient(); await bento.<op>(arg)
Delegate(e, op, arg) ==
    LET bento == getBentoClient(e)
    IN IF bento.kind = "throw" THEN bento
       ELSE Await([op |-> op, args |-> arg, client |-> bento.value])

\* a handler whose body is not wrapped in try/catch: the fault propagates
TryCatch_Rethrow(outcome) ==
    outcome

\* try { body } catch (error) { return text handleError(error) }
TryCatch(outcome) ==
    IF outcome.kind = "throw" THEN Return(handleError(outcome.error)) ELSE outcome

(***************************************************************************)
(* The tool handlers, each up to its await (or its early return).  a is    *)
(* the argument object the handler receives, e is process.env at the time  *)
(* of the call.  A remote call is the SDK operation, its argument list and *)
(* the client it is issued on.                                             *)
(***************************************************************************)
\* subscribers.length > 1000
MaxBatch == 1000
\* batchSizePerHour ?? 1000
DefaultBatchSizePerHour == 1000

\* bento_get_subscriber resolving the credentials before it looks at its arguments
bento_get_subscriber_ClientFirst(a, e) ==
    TryCatch(
        LET bento == getBentoClient(e)
        IN IF bento.kind = "throw" THEN bento
           ELSE IF ~Truthy(a.email) /\ ~Truthy(a.uuid)
           THEN Return("Either email or uuid is required")
           ELSE Delegate(e, "V1.Subscribers.getSubscribers",
                         <<IF Truthy(a.email) THEN [email |-> a.email]
                           ELSE [uuid |-> a.uuid]>>))

\* bento_get_subscriber refusing an invocation that carries both identifiers
bento_get_subscriber_ExactlyOne(a, e) ==
    TryCatch(
        IF Truthy(a.email) = Truthy(a.uuid)
        THEN Return("Either email or uuid is required")
        ELSE Delegate(e, "V1.Subscribers.getSubscribers",
                      <<IF Truthy(a.email) THEN [email |-> a.email]
                        ELSE [uuid |-> a.uuid]>>))

\* bento_get_subscriber forwarding both identifiers in one argument
bento_get_subscriber_BothKeys(a, e) ==
    TryCatch(
        IF ~Truthy(a.email) /\ ~Truthy(a.uuid)
        THEN Return("Either email or uuid is required")
        ELSE Delegate(e, "V1.Subscribers.getSubscribers",
                      <<[email |-> a.email, uuid |-> a.uuid]>>))

bento_get_subscriber(a, e) ==
    TryCatch(
        IF ~Truthy(a.email) /\ ~Truthy(a.uuid)
        THEN Return("Either email or uuid is required")
        ELSE Delegate(e, "V1.Subscribers.getSubscribers",
                      <<IF Truthy(a.email) THEN [email |-> a.email]
                        ELSE [uuid |-> a.uuid]>>))

bento_create_subscriber(a, e) ==
    TryCatch(Delegate(e, "V1.Subscribers.createSubscriber", <<[email |-> a.email]>>))

bento_upsert_subscriber(a, e) ==
    TryCatch(Delegate(e, "V1.upsertSubscriber",
                      <<[email |-> a.email, fields |-> a.fields, tags |-> a.tags,
                         remove_tags |-> a.removeTags]>>))

bento_add_subscriber(a, e) ==
    TryCatch(Delegate(e, "V1.addSubscriber", <<[email |-> a.email, fields |-> a.fields]>>))

bento_remove_subscriber(a, e) ==
    TryCatch(Delegate(e, "V1.removeSubscriber", <<[email |-> a.email]>>))

bento_tag_subscriber(a, e) ==
    TryCatch(Delegate(e, "V1.tagSubscriber", <<[email |-> a.email, tagName |-> a.tagName]>>))

bento_remove_tag(a, e) ==
    TryCatch(Delegate(e, "V1.Commands.removeTag",
                      <<[email |-> a.email, tagName |-> a.tagName]>>))

bento_list_tags(a, e) ==
    TryCatch(Delegate(e, "V1.Tags.getTags", <<>>))

bento_create_tag(a, e) ==
    TryCatch(Delegate(e, "V1.Tags.createTag", <<[name |-> a.name]>>))

bento_track_event(a, e) ==
    TryCatch(Delegate(e, "V1.track",
                      <<[email |-> a.email, type |-> a.type, fields |-> a.fields,
                         details |-> a.details]>>))

\* cart.items?.map((item) => ({ product_id: item.productId, ... }))
MapCartItems(items) ==
    IF items.t = "undefined" THEN Undefined
    ELSE Arr([j \in 1..Len(items.items) |->
                [product_id |-> items.items[j].productId,
                 product_sku |-> items.items[j].productSku,
                 product_name |-> items.items[j].productName,
                 quantity |-> items.items[j].quantity,
                 product_price |-> items.items[j].productPrice]])

\* bento_track_purchase converting the amount from cents to whole units
bento_track_purchase_MajorUnits(a, e) ==
    TryCatch(Delegate(e, "V1.trackPurchase",
                      <<[email |-> a.email,
                         purchaseDetails |->
                            [unique |-> [key |-> a.orderId],
                             value |-> [currency |-> a.currency,
                                        amount |-> Num(a.amount.n \div 100)],
                             cart |-> IF Truthy(a.cart)
                                      THEN [abandoned_checkout_url |-> a.cart.abandonedCheckoutUrl,
                                            items |-> MapCartItems(a.cart.items)]
                                      ELSE Undefined]]>>))

bento_track_purchase(a, e) ==
    TryCatch(Delegate(e, "V1.trackPurchase",
                      <<[email |-> a.email,
                         purchaseDetails |->
                            [unique |-> [key |-> a.orderId],
                             value |-> [currency |-> a.currency, amount |-> a.amount],
                             cart |-> IF Truthy(a.cart)
                                      THEN [abandoned_checkout_url |-> a.cart.abandonedCheckoutUrl,
                                            items |-> MapCartItems(a.cart.items)]
                                      ELSE Undefined]]>>))

bento_update_fields(a, e) ==
    TryCatch(Delegate(e, "V1.updateFields", <<[email |-> a.email, fields |-> a.fields]>>))

bento_list_fields(a, e) ==
    TryCatch(Delegate(e, "V1.Fields.getFields", <<>>))

bento_create_field(a, e) ==
    TryCatch(Delegate(e, "V1.Fields.createField", <<[key |-> a.key]>>))

bento_get_site_stats(a, e) ==
    TryCatch(Delegate(e, "V1.Stats.getSiteStats", <<>>))

bento_get_segment_stats(a, e) ==
    TryCatch(Delegate(e, "V1.Stats.getSegmentStats", <<a.segmentId>>))

bento_get_report_stats(a, e) ==
    TryCatch(Delegate(e, "V1.Stats.getReportStats", <<a.reportId>>))

bento_send_email(a, e) ==
    TryCatch(Delegate(e, "V1.Batch.sendTransactionalEmails",
                      <<[emails |-> <<[to |-> a.to, from |-> a.from, subject |-> a.subject,
                                       html_body |-> a.htmlBody,
                                       transactional |-> a.transactional,
                                       personalizations |-> a.personalizations]>>]>>))

bento_list_broadcasts(a, e) ==
    TryCatch(Delegate(e, "V1.Broadcasts.getBroadcasts", <<>>))

bento_create_broadcast(a, e) ==
    TryCatch(Delegate(e, "V1.Broadcasts.createBroadcast",
                      <<<<[name |-> a.name, subject |-> a.subject, content |-> a.content,
                           type |-> a.type,
                           from |-> [name |-> a.fromName, email |-> a.fromEmail],
                           inclusive_tags |-> a.inclusiveTags,
                           exclusive_tags |-> a.exclusiveTags,
                           segment_id |-> a.segmentId,
                           batch_size_per_hour |->
                              IF a.batchSizePerHour.t \in {"undefined", "null"}
                              THEN Num(DefaultBatchSizePerHour)
                              ELSE a.batchSizePerHour]>>>>))

bento_list_sequences(a, e) ==
    TryCatch(Delegate(e, "V1.Sequences.getSequences", <<>>))

bento_list_workflows(a, e) ==
    TryCatch(Delegate(e, "V1.Workflows.getWorkflows", <<>>))

bento_get_email_template(a, e) ==
    TryCatch(Delegate(e, "V1.EmailTemplates.getEmailTemplate", <<[id |-> a.id]>>))

\* bento_update_email_template rejecting unless both fields are given
bento_update_email_template_BothRequired(a, e) ==
    TryCatch(
        IF ~Truthy(a.subject) \/ ~Truthy(a.html)
        THEN Return("Either subject or html (or both) is required to update")
        ELSE Delegate(e, "V1.EmailTemplates.updateEmailTemplate",
                      <<[id |-> a.id, subject |-> a.subject, html |-> a.html]>>))

bento_update_email_template(a, e) ==
    TryCatch(
        IF ~Truthy(a.subject) /\ ~Truthy(a.html)
        THEN Return("Either subject or html (or both) is required to update")
        ELSE Delegate(e, "V1.EmailTemplates.updateEmailTemplate",
                      <<[id |-> a.id, subject |-> a.subject, html |-> a.html]>>))

\* const { firstName, lastName, ...rest } = s; { ...rest, first_name, last_name }
MapSubscriber(s) ==
    [email |-> s.email, tags |-> s.tags,
     first_name |-> s.firstName, last_name |-> s.lastName]

\* bento_batch_import_subscribers with the cap off by one (>= for >)
bento_batch_import_subscribers_OffByOne(a, e) ==
    TryCatch(
        IF Len(a.subscribers) >= MaxBatch
        THEN Return("Error: Maximum 1000 subscribers per batch")
        ELSE Delegate(e, "V1.Batch.importSubscribers",
                      <<[subscribers |->
                           [j \in 1..Len(a.subscribers) |->
                              MapSubscriber(a.subscribers[j])]]>>))

bento_batch_import_subscribers(a, e) ==
    TryCatch(
        IF Len(a.subscribers) > MaxBatch
        THEN Return("Error: Maximum 1000 subscribers per batch")
        ELSE Delegate(e, "V1.Batch.importSubscribers",
                      <<[subscribers |->
                           [j \in 1..Len(a.subscribers) |->
                              MapSubscriber(a.subscribers[j])]]>>))

bento_validate_email(a, e) ==
    TryCatch(Delegate(e, "V1.Experimental.validateEmail",
                      <<[email |-> a.email, name |-> a.name, ip |-> a.ip,
                         userAgent |-> a.userAgent]>>))

bento_guess_gender(a, e) ==
    TryCatch(Delegate(e, "V1.Experimental.guessGender", <<[name |-> a.name]>>))

bento_geolocate_ip(a, e) ==
    TryCatch(Delegate(e, "V1.Experimental.geoLocateIP", <<a.ip>>))

\* bento_check_blacklist without its either-or check
bento_check_blacklist_NoCheck(a, e) ==
    TryCatch(Delegate(e, "V1.Experimental.getBlacklistStatus",
                      <<IF Truthy(a.domain) THEN [domain |-> a.domain]
                        ELSE [ipAddress |-> a.ip]>>))

\* bento_check_blacklist preferring the ip over the domain
bento_check_blacklist_IpFirst(a, e) ==
    TryCatch(
        IF ~Truthy(a.domain) /\ ~Truthy(a.ip)
        THEN Return("Either domain or ip is required")
        ELSE Delegate(e, "V1.Experimental.getBlacklistStatus",
                      <<IF Truthy(a.ip) THEN [ipAddress |-> a.ip]
                        ELSE [domain |-> a.domain]>>))

bento_check_blacklist(a, e) ==
    TryCatch(
        IF ~Truthy(a.domain) /\ ~Truthy(a.ip)
        THEN Return("Either domain or ip is required")
        ELSE Delegate(e, "V1.Experimental.getBlacklistStatus",
                      <<IF Truthy(a.domain) THEN [domain |-> a.domain]
                        ELSE [ipAddress |-> a.ip]>>))

bento_moderate_content(a, e) ==
    TryCatch(Delegate(e, "V1.Experimental.getContentModeration", <<a.content>>))

bento_get_form_responses(a, e) ==
    TryCatch(Delegate(e, "V1.Forms.getResponses", <<a.formId>>))

Tools ==
    {"bento_get_subscriber", "bento_create_subscriber", "bento_upsert_subscriber",
     "bento_add_subscriber", "bento_remove_subscriber", "bento_tag_subscriber",
     "bento_remove_tag", "bento_list_tags", "bento_create_tag", "bento_track_event",
     "bento_track_purchase", "bento_update_fields", "bento_list_fields",
     "bento_create_field", "bento_get_site_stats", "bento_get_segment_stats",
     "bento_get_report_stats", "bento_send_email", "bento_list_broadcasts",
     "bento_create_broadcast", "bento_list_sequences", "bento_list_workflows",
     "bento_get_email_template", "bento_update_email_template",
     "bento_batch_import_subscribers", "bento_validate_email", "bento_guess_gender",
     "bento_geolocate_ip", "bento_check_blacklist", "bento_moderate_content",
     "bento_get_form_responses"}

\* server.tool(name, description, schema, handler): the handler registered under name
Handler(name, a, e) ==
    CASE name = "bento_get_subscriber" -> bento_get_subscriber(a, e)
      [] name = "bento_create_subscriber" -> bento_create_subscriber(a, e)
      [] name = "bento_upsert_subscriber" -> bento_upsert_subscriber(a, e)
      [] name = "bento_add_subscriber" -> bento_add_subscriber(a, e)
      [] name = "bento_remove_subscriber" -> bento_remove_subscriber(a, e)
      [] name = "bento_tag_subscriber" -> bento_tag_subscriber(a, e)
      [] name = "bento_remove_tag" -> bento_remove_tag(a, e)
      [] name = "bento_list_tags" -> bento_list_tags(a, e)
      [] name = "bento_create_tag" -> bento_create_tag(a, e)
      [] name = "bento_track_event" -> bento_track_event(a, e)
      [] name = "bento_track_purchase" -> bento_track_purchase(a, e)
      [] name = "bento_update_fields" -> bento_update_fields(a, e)
      [] name = "bento_list_fields" -> bento_list_fields(a, e)
      [] name = "bento_create_field" -> bento_create_field(a, e)
      [] name = "bento_get_site_stats" -> bento_get_site_stats(a, e)
      [] name = "bento_get_segment_stats" -> bento_get_segment_stats(a, e)
      [] name = "bento_get_report_stats" -> bento_get_report_stats(a, e)
      [] name = "bento_send_email" -> bento_send_email(a, e)
      [] name = "bento_list_broadcasts" -> bento_list_broadcasts(a, e)
      [] name = "bento_create_broadcast" -> bento_create_broadcast(a, e)
      [] name = "bento_list_sequences" -> bento_list_sequences(a, e)
      [] name = "bento_list_workflows" -> bento_list_workflows(a, e)
      [] name = "bento_get_email_template" -> bento_get_email_template(a, e)
      [] name = "bento_update_email_template" -> bento_update_email_template(a, e)
      [] name = "bento_batch_import_subscribers" -> bento_batch_import_subscribers(a, e)
      [] name = "bento_validate_email" -> bento_validate_email(a, e)
      [] name = "bento_guess_gender" -> bento_guess_gender(a, e)
      [] name = "bento_geolocate_ip" -> bento_geolocate_ip(a, e)
      [] name = "bento_check_blacklist" -> bento_check_blacklist(a, e)
      [] name = "bento_moderate_content" -> bento_moderate_content(a, e)
      [] name = "bento_get_form_responses" -> bento_get_form_responses(a, e)

\* every handler serializing the value without formatResponse's literals
RenderResult_Raw(name, value) ==
    CASE name = "bento_send_email" ->
            IF GreaterThanZero(value) THEN "Email sent successfully"
            ELSE "Failed to send email"
      [] name = "bento_batch_import_subscribers" ->
            "Successfully imported " \o JSString(value) \o " subscribers"
      [] name = "bento_validate_email" ->
            IF Truthy(value) THEN "Email is valid"
            ELSE "Email appears to be invalid or risky"
      [] OTHER -> Stringify(value, 0)

\* the text a handler renders from the value its remote call resolved with
RenderResult(name, value) ==
    CASE name = "bento_send_email" ->
            IF GreaterThanZero(value) THEN "Email sent successfully"
            ELSE "Failed to send email"
      [] name = "bento_batch_import_subscribers" ->
            "Successfully imported " \o JSString(value) \o " subscribers"
      [] name = "bento_validate_email" ->
            IF Truthy(value) THEN "Email is valid"
            ELSE "Email appears to be invalid or risky"
      [] OTHER -> formatResponse(value)

\* a handler that issues the call again when it rejected
AfterAwait_Retry(name, settled) ==
    TryCatch(
        IF settled.kind = "reject"
        THEN Await([op |-> "retry", args |-> <<>>, client |-> Undefined])
        ELSE Return(RenderResult(name, settled.value)))

\* the rest of a handler, from its await on: the call resolved or rejected
AfterAwait(name, settled) ==
    TryCatch(
        IF settled.kind = "reject" THEN Throw(settled.error)
        ELSE Return(RenderResult(name, settled.value)))

\* the defaults the tool's zod schema fills in before the handler runs
Schema(name, raw) ==
    CASE name = "bento_track_purchase" ->
            [raw EXCEPT !.currency = IF @ = Undefined THEN Str("USD") ELSE @]
      [] name = "bento_send_email" ->
            [raw EXCEPT !.transactional = IF @ = Undefined THEN Bool(TRUE) ELSE @]
      [] name = "bento_create_broadcast" ->
            [raw EXCEPT !.type = IF @ = Undefined THEN Str("html") ELSE @]
      [] OTHER -> raw

(***************************************************************************)
(* The inputs of the model: schema-valid argument payloads as the host     *)
(* sends them (an omitted optional field is Undefined), the values of an   *)
(* environment variable, and what the remote service may answer.           *)
(***************************************************************************)
Email == Str("john@example.com")

OtherEmail == Str("jane@example.org")

FieldMap == Obj(<<Prop("firstName", Str("John"))>>)

Cart ==
    [t |-> "object", abandonedCheckoutUrl |-> Undefined,
     items |-> Arr(<<[productId |-> Str("p1"), productSku |-> Undefined,
                      productName |-> Str("Shirt"), quantity |-> Num(2),
                      productPrice |-> Num(500)]>>)]

Subscriber ==
    [email |-> Email, firstName |-> Str("John"), lastName |-> Undefined,
     tags |-> Str("lead")]

BatchSizes == {0, 1, MaxBatch, MaxBatch + 1}

Payloads(name) ==
    CASE name = "bento_get_subscriber" ->
            [email : {Undefined, Email, OtherEmail},
             uuid : {Undefined, Str(""), Str("u-1")}]
      [] name \in {"bento_create_subscriber", "bento_remove_subscriber"} ->
            {[email |-> Email]}
      [] name = "bento_upsert_subscriber" ->
            {[email |-> Email, fields |-> FieldMap, tags |-> Str("lead,newsletter"),
              removeTags |-> Undefined]}
      [] name \in {"bento_add_subscriber", "bento_update_fields"} ->
            {[email |-> Email, fields |-> FieldMap]}
      [] name \in {"bento_tag_subscriber", "bento_remove_tag"} ->
            {[email |-> Email, tagName |-> Str("premium-user")]}
      [] name = "bento_create_tag" -> {[name |-> Str("premium-user")]}
      [] name = "bento_track_event" ->
            {[email |-> Email, type |-> Str("$pageView"), fields |-> Undefined,
              details |-> Obj(<<Prop("url", Str("/pricing"))>>)]}
      [] name = "bento_track_purchase" ->
            [email : {Email}, orderId : {Str("order-12345")},
             amount : {Num(9999), Num(0)}, currency : {Undefined, Str("EUR")},
             cart : {Undefined, Cart}]
      [] name = "bento_create_field" -> {[key |-> Str("firstName")]}
      [] name = "bento_get_segment_stats" -> {[segmentId |-> Str("seg-1")]}
      [] name = "bento_get_report_stats" -> {[reportId |-> Str("rep-1")]}
      [] name = "bento_send_email" ->
            [to : {Email}, from : {Str("author@example.com")}, subject : {Str("Hi")},
             htmlBody : {Str("<p>Hi</p>")}, transactional : {Undefined, Bool(FALSE)},
             personalizations : {Undefined}]
      [] name = "bento_create_broadcast" ->
            [name : {Str("Launch")}, subject : {Str("Hi")}, content : {Str("<p>Hi</p>")},
             type : {Undefined, Str("plain")}, fromName : {Str("Ann")},
             fromEmail : {Str("author@example.com")}, inclusiveTags : {Str("lead")},
             exclusiveTags : {Undefined}, segmentId : {Undefined},
             batchSizePerHour : {Undefined, Num(50)}]
      [] name = "bento_get_email_template" -> {[id |-> Num(7)]}
      [] name = "bento_update_email_template" ->
            [id : {Num(7)}, subject : {Undefined, Str(""), Str("Hi")},
             html : {Undefined, Str(""), Str("<p>Hi</p>")}]
      [] name = "bento_batch_import_subscribers" ->
            {[subscribers |-> [j \in 1..n |-> Subscriber]] : n \in BatchSizes}
      [] name = "bento_validate_email" ->
            {[email |-> Email, name |-> Undefined, ip |-> Undefined,
              userAgent |-> Undefined]}
      [] name = "bento_guess_gender" -> {[name |-> Str("John")]}
      [] name = "bento_geolocate_ip" -> {[ip |-> Str("1.2.3.4")]}
      [] name = "bento_check_blacklist" ->
            [domain : {Undefined, Str(""), Str("example.com")},
             ip : {Undefined, Str(""), Str("1.2.3.4")}]
      [] name = "bento_moderate_content" -> {[content |-> Str("hello")]}
      [] name = "bento_get_form_responses" -> {[formId |-> Str("form-1")]}
      [] OTHER -> {[none |-> Undefined]}

\* an environment variable is unset, set to the empty string, or set
EnvValues == {Undefined, Str(""), Str("key")}

RemoteValues ==
    {Undefined, Bool(TRUE), Bool(FALSE), Num(0), Num(2),
     Obj(<<Prop("email", Email), Prop("tags", Arr(<<>>))>>)}

RemoteFaults == {Err("Request failed with status 401")}

(***************************************************************************)
(* Bounds of the model.                                                    *)
(***************************************************************************)
\* number of invocations the host may have in flight at once
MaxInv == 2
\* number of properties of an object a helper is applied to
MaxFields == 2

Invs == 1..MaxInv

\* the values the helpers formatResponse and handleError are applied to
ProbeLeaves ==
    {Undefined, Null, Bool(TRUE), Bool(FALSE), Num(0), Num(42), Num(-7),
     Str(""), Str("a"), Str("say \"hi\"")}

ProbeKeys == {"b", "a", "id"}

ProbeFieldValues ==
    {Undefined, Null, Num(1), Str("x"), Arr(<<Num(1), Undefined>>),
     Obj(<<Prop("n", Bool(TRUE))>>)}

ProbeObjects ==
    {Obj(fields) : fields \in
        {f \in UNION {[1..n -> [k : ProbeKeys, v : ProbeFieldValues]] : n \in 0..MaxFields} :
            \A x, y \in DOMAIN f : x # y => f[x].k # f[y].k}}

ProbeArrays ==
    {Arr(<<>>), Arr(<<Num(1), Str("x")>>), Arr(<<Null, Arr(<<>>)>>)}

ProbeFaults ==
    {Err("Request failed with status 401"), Err(""),
     Obj(<<Prop("message", Str("not an Error instance"))>>)}

Probes == ProbeLeaves \cup ProbeObjects \cup ProbeArrays \cup ProbeFaults

(***************************************************************************)
(* State.                                                                  *)
(***************************************************************************)
VARIABLES
    env,        \* process.env: environment variable name -> value
    mainPc,     \* main(): "connecting", "listening" or "exited"
    stderr,     \* what console.error has written
    exitCode,   \* <<>> while the process runs, <<code>> once process.exit(code) ran
    pc,         \* per invocation: "idle", "awaiting", "returned" or "escaped"
    tool,       \* per invocation: the tool invoked
    args,       \* per invocation: the argument payload the host sent
    calls,      \* per invocation: the remote calls it issued, in order
    content,    \* per invocation: the content items its handler returned
    settled,    \* per invocation: <<>>, or <<how its awaited remote call settled>>
    probe,      \* the value a helper is applied to
    formatted,  \* <<>>, or <<formatResponse(probe)>> once applied
    handled     \* <<>>, or <<handleError(probe)>> once applied

mainVars == <<mainPc, stderr, exitCode>>
invVars == <<pc, tool, args, calls, content, settled>>
helperVars == <<probe, formatted, handled>>
vars == <<env, mainPc, stderr, exitCode, pc, tool, args, calls, content, settled,
          probe, formatted, handled>>

Init ==
    /\ env \in [EnvNames -> EnvValues]
    /\ mainPc = "connecting"
    /\ stderr = <<>>
    /\ exitCode = <<>>
    /\ pc = [i \in Invs |-> "idle"]
    /\ tool = [i \in Invs |-> ""]
    /\ args = [i \in Invs |-> Undefined]
    /\ calls = [i \in Invs |-> <<>>]
    /\ content = [i \in Invs |-> <<>>]
    /\ settled = [i \in Invs |-> <<>>]
    /\ probe = Undefined
    /\ formatted = <<>>
    /\ handled = <<>>

(***************************************************************************)
(* main(): await server.connect(transport).                                *)
(***************************************************************************)
MainConnected ==
    /\ mainPc = "connecting"
    /\ mainPc' = "listening"
    /\ stderr' = Append(stderr, "Bento MCP Server running on stdio")
    /\ UNCHANGED <<env, exitCode, invVars, helperVars>>

\* a main().catch that reports the fault and lets the process go on as if connected
MainConnectFailed_KeepRunning(error) ==
    /\ mainPc = "connecting"
    /\ mainPc' = "listening"
    /\ stderr' = Append(stderr, "Fatal error: " \o JSString(error))
    /\ UNCHANGED <<env, exitCode, invVars, helperVars>>

\* main().catch: console.error("Fatal error:", error); process.exit(1)
MainConnectFailed(error) ==
    /\ mainPc = "connecting"
    /\ mainPc' = "exited"
    /\ stderr' = Append(stderr, "Fatal error: " \o JSString(error))
    /\ exitCode' = <<1>>
    /\ UNCHANGED <<env, invVars, helperVars>>

(***************************************************************************)
(* An invocation: the host runs the handler registered under name on the   *)
(* schema-parsed payload.  The handler runs to its return or to its await. *)
(***************************************************************************)
\* a handler stretch that leaves its result in one buffer all invocations share
Step_SharedResult(i, outcome) ==
    /\ pc' = [pc EXCEPT ![i] = CASE outcome.kind = "return" -> "returned"
                                 [] outcome.kind = "await" -> "awaiting"
                                 [] OTHER -> "escaped"]
    /\ content' = [j \in Invs |-> IF outcome.kind = "return"
                                  THEN outcome.content ELSE content[j]]
    /\ calls' = [calls EXCEPT ![i] = IF outcome.kind = "await"
                                     THEN Append(@, outcome.call) ELSE @]

\* the invocation state after a stretch of the handler ended with outcome
Step(i, outcome) ==
    /\ pc' = [pc EXCEPT ![i] = CASE outcome.kind = "return" -> "returned"
                                 [] outcome.kind = "await" -> "awaiting"
                                 [] OTHER -> "escaped"]
    /\ content' = [content EXCEPT ![i] = IF outcome.kind = "return"
                                         THEN outcome.content ELSE @]
    /\ calls' = [calls EXCEPT ![i] = IF outcome.kind = "await"
                                     THEN Append(@, outcome.call) ELSE @]

\* an invocation that reuses the credentials of a client built for an earlier one
Invoke_CachedClient(i, name, raw) ==
    LET built == {j \in Invs : calls[j] # <<>>}
        client == calls[CHOOSE j \in built : TRUE][1].client
        cached == [n \in EnvNames |->
                     CASE n = "BENTO_PUBLISHABLE_KEY" -> client.authentication.publishableKey
                       [] n = "BENTO_SECRET_KEY" -> client.authentication.secretKey
                       [] OTHER -> client.siteUuid]
    IN  /\ mainPc = "listening"
        /\ pc[i] = "idle"
        /\ tool' = [tool EXCEPT ![i] = name]
        /\ args' = [args EXCEPT ![i] = raw]
        /\ Step(i, Handler(name, Schema(name, raw), IF built = {} THEN env ELSE cached))
        /\ UNCHANGED <<env, mainVars, settled, helperVars>>

Invoke(i, name, raw) ==
    /\ mainPc = "listening"
    /\ pc[i] = "idle"
    /\ tool' = [tool EXCEPT ![i] = name]
    /\ args' = [args EXCEPT ![i] = raw]
    /\ Step(i, Handler(name, Schema(name, raw), env))
    /\ UNCHANGED <<env, mainVars, settled, helperVars>>

\* the awaited remote call resolves with value
RemoteResolve(i, value) ==
    /\ pc[i] = "awaiting"
    /\ settled' = [settled EXCEPT ![i] = <<[kind |-> "resolve", value |-> value]>>]
    /\ Step(i, AfterAwait(tool[i], [kind |-> "resolve", value |-> value]))
    /\ UNCHANGED <<env, mainVars, tool, args, helperVars>>

\* the awaited remote call rejects with error
RemoteReject(i, error) ==
    /\ pc[i] = "awaiting"
    /\ settled' = [settled EXCEPT ![i] = <<[kind |-> "reject", error |-> error]>>]
    /\ Step(i, AfterAwait(tool[i], [kind |-> "reject", error |-> error]))
    /\ UNCHANGED <<env, mainVars, tool, args, helperVars>>

\* the host has taken the invocation's result (or fault); the slot is free again
Retire(i) ==
    /\ pc[i] \in {"returned", "escaped"}
    /\ pc' = [pc EXCEPT ![i] = "idle"]
    /\ tool' = [tool EXCEPT ![i] = ""]
    /\ args' = [args EXCEPT ![i] = Undefined]
    /\ calls' = [calls EXCEPT ![i] = <<>>]
    /\ content' = [content EXCEPT ![i] = <<>>]
    /\ settled' = [settled EXCEPT ![i] = <<>>]
    /\ UNCHANGED <<env, mainVars, helperVars>>

\* the slots a new invocation can take; each invocation gets its own payload value
FreeInvs == {i \in Invs : pc[i] = "idle"}

Next ==
    \/ MainConnected
    \/ \E error \in RemoteFaults : MainConnectFailed(error)
    \/ \E i \in FreeInvs : \E name \in Tools : \E raw \in Payloads(name) : Invoke(i, name, raw)
    \/ \E i \in Invs : \E value \in RemoteValues : RemoteResolve(i, value)
    \/ \E i \in Invs : \E error \in RemoteFaults : RemoteReject(i, error)
    \/ \E i \in Invs : Retire(i)

Spec == Init /\ [][Next]_vars

(***************************************************************************)
(* The program in a process whose environment changes while it runs:       *)
(* process.env is a process-wide mutable object, and between two steps of  *)
(* the handlers a variable may be set, emptied or deleted.  The tools      *)
(* invoked are two that go straight to credential resolution.              *)
(***************************************************************************)
EnvTools == {"bento_create_subscriber", "bento_list_tags"}

\* process.env[n] = v, or delete process.env[n] for v = Undefined
SetEnv(n, v) ==
    /\ env[n] # v
    /\ env' = [env EXCEPT ![n] = v]
    /\ UNCHANGED <<mainVars, invVars, helperVars>>

NextEnv ==
    \/ MainConnected
    \/ \E error \in RemoteFaults : MainConnectFailed(error)
    \/ \E i \in FreeInvs : \E name \in EnvTools : \E raw \in Payloads(name) : Invoke(i, name, raw)
    \/ \E i \in Invs : \E value \in RemoteValues : RemoteResolve(i, value)
    \/ \E i \in Invs : \E error \in RemoteFaults : RemoteReject(i, error)
    \/ \E i \in Invs : Retire(i)
    \/ \E n \in EnvNames : \E v \in EnvValues : SetEnv(n, v)

SpecEnv == Init /\ [][NextEnv]_vars

(***************************************************************************)
(* The helpers on their own: formatResponse and handleError applied to a   *)
(* value drawn from Probes.                                                *)
(***************************************************************************)
InitFormat ==
    /\ env = [n \in EnvNames |-> Undefined]
    /\ mainPc = "connecting"
    /\ stderr = <<>>
    /\ exitCode = <<>>
    /\ pc = [i \in Invs |-> "idle"]
    /\ tool = [i \in Invs |-> ""]
    /\ args = [i \in Invs |-> Undefined]
    /\ calls = [i \in Invs |-> <<>>]
    /\ content = [i \in Invs |-> <<>>]
    /\ settled = [i \in Invs |-> <<>>]
    /\ probe \in Probes
    /\ formatted = <<>>
    /\ handled = <<>>

ApplyFormatResponse ==
    /\ formatted = <<>>
    /\ formatted' = <<formatResponse(probe)>>
    /\ UNCHANGED <<env, mainVars, invVars, probe, handled>>

ApplyHandleError ==
    /\ handled = <<>>
    /\ handled' = <<handleError(probe)>>
    /\ UNCHANGED <<env, mainVars, invVars, probe, formatted>>

NextFormat ==
    \/ ApplyFormatResponse
    \/ ApplyHandleError

SpecFormat == InitFormat /\ [][NextFormat]_vars

(***************************************************************************)
(* Vocabulary of the properties.                                           *)
(***************************************************************************)
Active(i) == pc[i] # "idle"
Text(i) == content[i][1].text
Parsed(i) == Schema(tool[i], args[i])
CredentialsPresent == \A n \in EnvNames : Truthy(env[n])
MissingEnvText == "Error: " \o MissingEnvMessage

RECURSIVE ContainsFrom(_, _, _)
ContainsFrom(s, sub, i) ==
    IF i + Len(sub) - 1 > Len(s) THEN FALSE
    ELSE IF SubSeq(s, i, i + Len(sub) - 1) = sub THEN TRUE
    ELSE ContainsFrom(s, sub, i + 1)

\* sub occurs in s
Contains(s, sub) == ContainsFrom(s, sub, 1)

\* the payload is not rejected by the check the tool makes before resolving credentials
PassesChecks(name, a) ==
    CASE name = "bento_get_subscriber" -> Truthy(a.email) \/ Truthy(a.uuid)
      [] name = "bento_check_blacklist" -> Truthy(a.domain) \/ Truthy(a.ip)
      [] name = "bento_update_email_template" -> Truthy(a.subject) \/ Truthy(a.html)
      [] name = "bento_batch_import_subscribers" -> Len(a.subscribers) <= MaxBatch
      [] OTHER -> TRUE

\* the literal the tool's own check answers with
RejectionText(name) ==
    CASE name = "bento_get_subscriber" -> "Either email or uuid is required"
      [] name = "bento_check_blacklist" -> "Either domain or ip is required"
      [] name = "bento_update_email_template" ->
            "Either subject or html (or both) is required to update"
      [] name = "bento_batch_import_subscribers" ->
            "Error: Maximum 1000 subscribers per batch"
      [] OTHER -> ""

(***************************************************************************)
(* C1: whatever fault a tool's checks, credential resolution or the remote *)
(* call raises, the handler catches it: no invocation ends with a fault    *)
(* propagating to the host, an invocation that ended holds exactly one     *)
(* text content item, and while invocations are served the process has not *)
(* exited.                                                                 *)
(***************************************************************************)
C1_FaultsCaught ==
    \A i \in Invs :
        /\ pc[i] \in {"idle", "awaiting", "returned"}
        /\ pc[i] = "returned" =>
              /\ Len(content[i]) = 1
              /\ content[i][1].type = "text"
              /\ Len(Text(i)) > 0
        /\ Active(i) => mainPc = "listening" /\ exitCode = <<>>

\* one invocation ended with the text of a rejected remote call, another with the
\* text of a failed credential resolution or of a success
C1_Witness ==
    \E i, j \in Invs :
        /\ i # j
        /\ pc[i] = "returned" /\ settled[i] # <<>> /\ settled[i][1].kind = "reject"
        /\ Text(i) = "Error: Request failed with status 401"
        /\ pc[j] = "returned" /\ Text(j) = "Success"

(***************************************************************************)
(* C2: a remote call is issued only on a client built from three present   *)
(* configuration values; an invocation that reaches credential resolution  *)
(* while any of the three is unset ends at once with the                   *)
(* missing-configuration text, which names every unset variable, and       *)
(* issues no remote call.                                                  *)
(***************************************************************************)
C2_CredentialsBeforeCall ==
    \A i \in Invs :
        /\ \A k \in 1..Len(calls[i]) :
              /\ CredentialsPresent
              /\ calls[i][k].client.authentication.publishableKey
                    = env["BENTO_PUBLISHABLE_KEY"]
              /\ calls[i][k].client.authentication.secretKey = env["BENTO_SECRET_KEY"]
              /\ calls[i][k].client.siteUuid = env["BENTO_SITE_UUID"]
        /\ ( /\ Active(i)
             /\ PassesChecks(tool[i], Parsed(i))
             /\ \E n \in EnvNames : env[n] = Undefined )
           => /\ pc[i] = "returned"
              /\ calls[i] = <<>>
              /\ Text(i) = MissingEnvText
              /\ \A n \in EnvNames : env[n] = Undefined => Contains(Text(i), n)

\* only the site identifier is unset, and an invocation ended with the message
C2_Witness ==
    \E i \in Invs :
        /\ env["BENTO_SITE_UUID"] = Undefined
        /\ Truthy(env["BENTO_PUBLISHABLE_KEY"]) /\ Truthy(env["BENTO_SECRET_KEY"])
        /\ pc[i] = "returned"
        /\ Text(i) = MissingEnvText
        /\ calls[i] = <<>>

(***************************************************************************)
(* C3 (as amended): with all three configuration values unset, every       *)
(* invocation ends without a remote call; its text is the                  *)
(* missing-configuration message, except that a payload the tool's own     *)
(* check rejects gets that check's literal message instead.                *)
(***************************************************************************)
AllUnset == \A n \in EnvNames : env[n] = Undefined

C3_UnsetConfiguration ==
    \A i \in Invs :
        (Active(i) /\ AllUnset) =>
            /\ pc[i] = "returned"
            /\ calls[i] = <<>>
            /\ settled[i] = <<>>
            /\ Text(i) = IF PassesChecks(tool[i], Parsed(i)) THEN MissingEnvText
                         ELSE RejectionText(tool[i])

\* C3 as stated: with all three unset, every invocation of every tool answers the
\* missing-configuration message
C3_Original ==
    \A i \in Invs :
        (Active(i) /\ AllUnset) =>
            /\ pc[i] = "returned"
            /\ calls[i] = <<>>
            /\ Text(i) = MissingEnvText

\* nothing is configured: one invocation answered the missing-configuration
\* message, another its tool's own rejection
C3_Witness ==
    \E i, j \in Invs :
        /\ AllUnset
        /\ pc[i] = "returned" /\ tool[i] = "bento_list_tags" /\ Text(i) = MissingEnvText
        /\ pc[j] = "returned" /\ tool[j] = "bento_check_blacklist"
        /\ Text(j) = "Either domain or ip is required"

(***************************************************************************)
(* C4: an invocation issues at most one remote call, and exactly one when  *)
(* its payload passes the tool's check and the credentials are present;    *)
(* once the call has resolved or rejected the invocation has ended, with   *)
(* that one call and no other.                                             *)
(***************************************************************************)
C4_OneCall ==
    \A i \in Invs :
        /\ Len(calls[i]) <= 1
        /\ (Active(i) /\ PassesChecks(tool[i], Parsed(i)) /\ CredentialsPresent)
              => Len(calls[i]) = 1
        /\ settled[i] # <<>> => pc[i] = "returned" /\ Len(calls[i]) = 1

\* an invocation whose call rejected has ended, having issued that one call
C4_Witness ==
    \E i \in Invs :
        /\ settled[i] # <<>> /\ settled[i][1].kind = "reject"
        /\ tool[i] = "bento_send_email"
        /\ pc[i] = "returned"
        /\ Len(calls[i]) = 1

(***************************************************************************)
(* C5: bento_get_subscriber given neither email nor uuid, and              *)
(* bento_check_blacklist given neither domain nor ip, answer their literal *)
(* guidance message and issue no remote call, whatever the configuration.  *)
(***************************************************************************)
C5_NeitherIdentifier ==
    \A i \in Invs :
        /\ ( /\ tool[i] = "bento_get_subscriber"
             /\ args[i].email = Undefined /\ args[i].uuid = Undefined )
           => /\ pc[i] = "returned"
              /\ Text(i) = "Either email or uuid is required"
              /\ calls[i] = <<>>
        /\ ( /\ tool[i] = "bento_check_blacklist"
             /\ args[i].domain = Undefined /\ args[i].ip = Undefined )
           => /\ pc[i] = "returned"
              /\ Text(i) = "Either domain or ip is required"
              /\ calls[i] = <<>>

\* with the credentials present, both tools were invoked with neither identifier
C5_Witness ==
    \E i, j \in Invs :
        /\ CredentialsPresent
        /\ tool[i] = "bento_get_subscriber"
        /\ args[i].email = Undefined /\ args[i].uuid = Undefined
        /\ Text(i) = "Either email or uuid is required"
        /\ tool[j] = "bento_check_blacklist"
        /\ args[j].domain = Undefined /\ args[j].ip = Undefined
        /\ Text(j) = "Either domain or ip is required"

(***************************************************************************)
(* C6: bento_batch_import_subscribers rejects a list of more than 1000     *)
(* entries with the literal maximum-batch error and no remote call; a list *)
(* of 1000 entries or fewer is not rejected by the cap: it goes on to      *)
(* credential resolution and, with the credentials present, to one import  *)
(* call carrying every entry.                                              *)
(***************************************************************************)
C6_BatchCap ==
    \A i \in Invs :
        tool[i] = "bento_batch_import_subscribers" =>
            LET n == Len(args[i].subscribers)
            IN /\ n > 1000 =>
                    /\ pc[i] = "returned"
                    /\ Text(i) = "Error: Maximum 1000 subscribers per batch"
                    /\ calls[i] = <<>>
               /\ (n <= 1000 /\ CredentialsPresent) =>
                    /\ Len(calls[i]) = 1
                    /\ calls[i][1].op = "V1.Batch.importSubscribers"
                    /\ Len(calls[i][1].args[1].subscribers) = n
               /\ (n <= 1000 /\ ~CredentialsPresent) =>
                    /\ pc[i] = "returned"
                    /\ Text(i) = MissingEnvText

\* a list of 1001 entries was rejected while a list of exactly 1000 was imported
C6_Witness ==
    \E i, j \in Invs :
        /\ tool[i] = "bento_batch_import_subscribers"
        /\ Len(args[i].subscribers) = 1001
        /\ Text(i) = "Error: Maximum 1000 subscribers per batch"
        /\ tool[j] = "bento_batch_import_subscribers"
        /\ Len(args[j].subscribers) = 1000
        /\ Len(calls[j]) = 1
        /\ pc[j] = "returned"
        /\ Text(j) = "Successfully imported 2 subscribers"

(***************************************************************************)
(* C7 (as amended): bento_update_email_template given neither subject nor  *)
(* html is rejected with the literal either/or message and no remote call; *)
(* given at least one of them non-empty, with the credentials present, it  *)
(* issues exactly one update call carrying the id and the fields as given. *)
(***************************************************************************)
C7_UpdateTemplate ==
    \A i \in Invs :
        tool[i] = "bento_update_email_template" =>
            /\ (args[i].subject = Undefined /\ args[i].html = Undefined) =>
                  /\ pc[i] = "returned"
                  /\ Text(i) = "Either subject or html (or both) is required to update"
                  /\ calls[i] = <<>>
            /\ ((Truthy(args[i].subject) \/ Truthy(args[i].html)) /\ CredentialsPresent) =>
                  /\ Len(calls[i]) = 1
                  /\ calls[i][1].op = "V1.EmailTemplates.updateEmailTemplate"
                  /\ calls[i][1].args = <<[id |-> args[i].id, subject |-> args[i].subject,
                                           html |-> args[i].html]>>

\* C7 as stated: given at least one of subject and html, the update call is issued
C7_Original ==
    \A i \in Invs :
        tool[i] = "bento_update_email_template" =>
            /\ (args[i].subject = Undefined /\ args[i].html = Undefined) =>
                  /\ pc[i] = "returned"
                  /\ Text(i) = "Either subject or html (or both) is required to update"
                  /\ calls[i] = <<>>
            /\ ((args[i].subject # Undefined \/ args[i].html # Undefined)
                    /\ CredentialsPresent) =>
                  /\ Len(calls[i]) = 1
                  /\ calls[i][1].op = "V1.EmailTemplates.updateEmailTemplate"
                  /\ calls[i][1].args = <<[id |-> args[i].id, subject |-> args[i].subject,
                                           html |-> args[i].html]>>

\* an update given only a subject issued its one call, html left undefined
C7_Witness ==
    \E i \in Invs :
        /\ tool[i] = "bento_update_email_template"
        /\ args[i].subject = Str("Hi") /\ args[i].html = Undefined
        /\ Len(calls[i]) = 1
        /\ calls[i][1].args = <<[id |-> Num(7), subject |-> Str("Hi"), html |-> Undefined]>>

(***************************************************************************)
(* C8: the call bento_track_purchase issues carries the amount unchanged,  *)
(* the currency "USD" when the payload omits it and the given currency     *)
(* otherwise, and the order id as the key of the purchase.                 *)
(***************************************************************************)
C8_PurchaseForwarding ==
    \A i \in Invs :
        tool[i] = "bento_track_purchase" =>
            /\ CredentialsPresent => Len(calls[i]) = 1
            /\ \A k \in 1..Len(calls[i]) :
                  LET details == calls[i][k].args[1].purchaseDetails
                  IN /\ calls[i][k].op = "V1.trackPurchase"
                     /\ details.value.amount = args[i].amount
                     /\ details.value.currency =
                           IF args[i].currency = Undefined THEN Str("USD")
                           ELSE args[i].currency
                     /\ details.unique.key = args[i].orderId

\* amount 9999 and no currency: the call carries USD and 9999
C8_Witness ==
    \E i \in Invs :
        /\ tool[i] = "bento_track_purchase"
        /\ args[i].amount = Num(9999) /\ args[i].currency = Undefined
        /\ Len(calls[i]) = 1
        /\ calls[i][1].args[1].purchaseDetails.value = [currency |-> Str("USD"),
                                                        amount |-> Num(9999)]
        /\ calls[i][1].args[1].purchaseDetails.unique.key = Str("order-12345")

(***************************************************************************)
(* C9: formatResponse renders null and undefined as "No data returned",    *)
(* true as "Success", false as "Operation failed", a number n as           *)
(* "Count: n", and any other value as its JSON serialization indented by   *)
(* two spaces, in which the properties of an object appear in the object's *)
(* own property order.                                                     *)
(***************************************************************************)
RECURSIVE IndexFrom(_, _, _)
IndexFrom(s, sub, i) ==
    IF i + Len(sub) - 1 > Len(s) THEN 0
    ELSE IF SubSeq(s, i, i + Len(sub) - 1) = sub THEN i
    ELSE IndexFrom(s, sub, i + 1)

\* the position of the first occurrence of sub in s, 0 when there is none
IndexOf(s, sub) == IndexFrom(s, sub, 1)

\* the properties of object v that a serialization shows
OwnFields(v) == SelectSeq(v.fields, LAMBDA p : p.v # Undefined)

C9_FormatResponse ==
    formatted # <<>> =>
        LET text == formatted[1]
        IN /\ probe \in {Null, Undefined} => text = "No data returned"
           /\ probe = Bool(TRUE) => text = "Success"
           /\ probe = Bool(FALSE) => text = "Operation failed"
           /\ probe = Num(0) => text = "Count: 0"
           /\ probe = Num(-7) => text = "Count: -7"
           /\ probe.t = "number" => text = "Count: " \o ToString(probe.n)
           /\ probe = Str("") => text = "\"\""
           /\ probe = Arr(<<>>) => text = "[]"
           /\ probe = Obj(<<>>) => text = "{}"
           /\ probe = Obj(<<Prop("b", Num(1)), Prop("a", Str("x"))>>) =>
                 text = "{\n  \"b\": 1,\n  \"a\": \"x\"\n}"
           /\ probe.t \notin {"null", "undefined", "boolean", "number"} =>
                 text = Stringify(probe, 0)
           /\ probe.t = "object" =>
                 LET own == OwnFields(probe)
                 IN /\ \A x \in DOMAIN own : IndexOf(text, Quote(own[x].k) \o ": ") > 0
                    /\ \A x, y \in DOMAIN own :
                          x < y => IndexOf(text, Quote(own[x].k) \o ": ")
                                      < IndexOf(text, Quote(own[y].k) \o ": ")

\* an object whose properties are not in alphabetical order was serialized
C9_Witness ==
    /\ probe = Obj(<<Prop("id", Num(1)), Prop("a", Str("x"))>>)
    /\ formatted = <<"{\n  \"id\": 1,\n  \"a\": \"x\"\n}">>

(***************************************************************************)
(* C10 (as amended): every tool other than bento_validate_email,           *)
(* bento_send_email and bento_batch_import_subscribers renders a boolean   *)
(* remote result as "Success" or "Operation failed" and a numeric one n as *)
(* "Count: n"; bento_validate_email renders its boolean result as "Email   *)
(* is valid" or "Email appears to be invalid or risky", bento_send_email   *)
(* its numeric result as "Email sent successfully" when positive and       *)
(* "Failed to send email" otherwise, and bento_batch_import_subscribers    *)
(* its numeric result n as "Successfully imported n subscribers".          *)
(***************************************************************************)
OwnRendering ==
    {"bento_validate_email", "bento_send_email", "bento_batch_import_subscribers"}

\* invocation i has ended after its remote call resolved
Resolved(i) ==
    pc[i] = "returned" /\ settled[i] # <<>> /\ settled[i][1].kind = "resolve"

C10_Rendering ==
    \A i \in Invs :
        Resolved(i) =>
            LET value == settled[i][1].value
            IN /\ (tool[i] \notin OwnRendering /\ value.t = "boolean") =>
                     Text(i) = IF value.b THEN "Success" ELSE "Operation failed"
               /\ (tool[i] \notin OwnRendering /\ value.t = "number") =>
                     Text(i) = "Count: " \o ToString(value.n)
               /\ (tool[i] = "bento_validate_email" /\ value.t = "boolean") =>
                     Text(i) = IF value.b THEN "Email is valid"
                               ELSE "Email appears to be invalid or risky"
               /\ (tool[i] = "bento_send_email" /\ value.t = "number") =>
                     Text(i) = IF value.n > 0 THEN "Email sent successfully"
                               ELSE "Failed to send email"
               /\ (tool[i] = "bento_batch_import_subscribers" /\ value.t = "number") =>
                     Text(i) = "Successfully imported " \o ToString(value.n)
                                  \o " subscribers"

\* C10 as stated: every tool renders booleans and numbers by the same literals
C10_Original ==
    \A i \in Invs :
        Resolved(i) =>
            LET value == settled[i][1].value
            IN /\ value.t = "boolean" =>
                     Text(i) = IF value.b THEN "Success" ELSE "Operation failed"
               /\ value.t = "number" => Text(i) = "Count: " \o ToString(value.n)

\* a tool with the shared rendering answered a boolean, bento_send_email a count
C10_Witness ==
    \E i, j \in Invs :
        /\ Resolved(i) /\ tool[i] = "bento_remove_tag"
        /\ settled[i][1].value = Bool(FALSE) /\ Text(i) = "Operation failed"
        /\ Resolved(j) /\ tool[j] = "bento_send_email"
        /\ settled[j][1].value = Num(2) /\ Text(j) = "Email sent successfully"

(***************************************************************************)
(* C11 (as amended): only an absent result (null or undefined) is rendered *)
(* as "No data returned"; an empty list is rendered as "[]", an empty      *)
(* object as "{}" and an empty string as two double quotes, their JSON     *)
(* serializations.                                                         *)
(***************************************************************************)
EmptyResults == {Arr(<<>>), Obj(<<>>), Str("")}

C11_EmptyResult ==
    formatted # <<>> =>
        /\ probe \in {Null, Undefined} => formatted[1] = "No data returned"
        /\ probe \in EmptyResults => formatted[1] # "No data returned"
        /\ probe = Arr(<<>>) => formatted[1] = "[]"
        /\ probe = Obj(<<>>) => formatted[1] = "{}"
        /\ probe = Str("") => formatted[1] = "\"\""

\* C11 as stated: an empty result is rendered like an absent one
C11_Original ==
    (formatted # <<>> /\ probe \in EmptyResults \cup {Null, Undefined}) =>
        formatted[1] = "No data returned"

\* formatResponse was applied to the empty list
C11_Witness ==
    probe = Arr(<<>>) /\ formatted = <<"[]">>

(***************************************************************************)
(* C12 (as amended): bento_get_subscriber requires at least one non-empty  *)
(* identifier among email and uuid, bento_check_blacklist at least one     *)
(* among domain and ip.  With the credentials present, an invocation that  *)
(* carries both identifiers non-empty is forwarded to the remote service   *)
(* as one call; one that carries neither is not forwarded and answers the  *)
(* guidance message.                                                       *)
(***************************************************************************)
EitherOrTools == {"bento_get_subscriber", "bento_check_blacklist"}

\* the first and the second identifier of an either-or tool's payload
FirstId(name, a) == IF name = "bento_get_subscriber" THEN a.email ELSE a.domain

SecondId(name, a) == IF name = "bento_get_subscriber" THEN a.uuid ELSE a.ip

C12_AtLeastOne ==
    \A i \in Invs :
        (tool[i] \in EitherOrTools /\ CredentialsPresent) =>
            LET first == FirstId(tool[i], args[i])
                second == SecondId(tool[i], args[i])
            IN  /\ (Truthy(first) /\ Truthy(second)) => Len(calls[i]) = 1
                /\ (Truthy(first) \/ Truthy(second)) <=> Len(calls[i]) = 1
                /\ (~Truthy(first) /\ ~Truthy(second)) =>
                       /\ calls[i] = <<>>
                       /\ Text(i) = RejectionText(tool[i])

\* C12 as stated: an invocation is forwarded only when it supplies exactly one identifier
C12_Original ==
    \A i \in Invs :
        (tool[i] \in EitherOrTools /\ CredentialsPresent) =>
            LET first == FirstId(tool[i], args[i])
                second == SecondId(tool[i], args[i])
            IN  (first # Undefined /\ second # Undefined) => calls[i] = <<>>

\* with the credentials present, both tools were invoked with both identifiers
C12_Witness ==
    \E i, j \in Invs :
        /\ CredentialsPresent
        /\ tool[i] = "bento_get_subscriber"
        /\ args[i].email = Email /\ args[i].uuid = Str("u-1")
        /\ Len(calls[i]) = 1
        /\ tool[j] = "bento_check_blacklist"
        /\ args[j].domain = Str("example.com") /\ args[j].ip = Str("1.2.3.4")
        /\ Len(calls[j]) = 1

(***************************************************************************)
(* C13: bento_get_subscriber invoked with an email and no uuid, all        *)
(* credentials present, issues exactly one getSubscribers call whose only  *)
(* argument is {email} with that email, and once the call resolves the     *)
(* result text is formatResponse of the resolved value: "No data returned" *)
(* for an absent value, the indented JSON of a subscriber object with its  *)
(* fields and values as they came.                                         *)
(***************************************************************************)
C13_LookupByEmail ==
    \A i \in Invs :
        ( /\ tool[i] = "bento_get_subscriber"
          /\ args[i].email # Undefined /\ args[i].uuid = Undefined
          /\ CredentialsPresent ) =>
            /\ Len(calls[i]) = 1
            /\ calls[i][1].op = "V1.Subscribers.getSubscribers"
            /\ calls[i][1].args = <<[email |-> args[i].email]>>
            /\ pc[i] \in {"awaiting", "returned"}
            /\ Resolved(i) =>
                 LET value == settled[i][1].value
                 IN  /\ pc[i] = "returned"
                     /\ Text(i) = formatResponse(value)
                     /\ value = Undefined => Text(i) = "No data returned"
                     /\ value = Obj(<<Prop("email", Email), Prop("tags", Arr(<<>>))>>) =>
                          Text(i) = "{\n  \"email\": \"john@example.com\",\n  \"tags\": []\n}"

\* a lookup by the second email resolved with a subscriber object
C13_Witness ==
    \E i \in Invs :
        /\ CredentialsPresent
        /\ tool[i] = "bento_get_subscriber"
        /\ args[i].email = OtherEmail /\ args[i].uuid = Undefined
        /\ calls[i][1].args = <<[email |-> OtherEmail]>>
        /\ Resolved(i)
        /\ settled[i][1].value.t = "object"
        /\ Text(i) = "{\n  \"email\": \"john@example.com\",\n  \"tags\": []\n}"

(***************************************************************************)
(* C18 (as amended): with the credentials present, an either-or tool keys  *)
(* its one call by the first identifier alone whenever that identifier is  *)
(* non-empty, whatever the second: bento_get_subscriber by {email},        *)
(* bento_check_blacklist by {domain}.  The second identifier is the key    *)
(* ({uuid}, respectively {ipAddress}) exactly when the first is absent or  *)
(* the empty string and the second is non-empty; a first identifier        *)
(* supplied as the empty string does not take precedence.                  *)
(***************************************************************************)
\* the argument keyed by the first, respectively the second, identifier
FirstKey(name, a) ==
    IF name = "bento_get_subscriber" THEN [email |-> a.email]
    ELSE [domain |-> a.domain]

SecondKey(name, a) ==
    IF name = "bento_get_subscriber" THEN [uuid |-> a.uuid]
    ELSE [ipAddress |-> a.ip]

\* invocation i issued its one call with the single argument key
KeyedBy(i, key) == Len(calls[i]) = 1 /\ calls[i][1].args = <<key>>

C18_FirstPrecedes ==
    \A i \in Invs :
        (tool[i] \in EitherOrTools /\ CredentialsPresent) =>
            LET first == FirstId(tool[i], args[i])
                second == SecondId(tool[i], args[i])
            IN  /\ Truthy(first) => KeyedBy(i, FirstKey(tool[i], args[i]))
                /\ KeyedBy(i, SecondKey(tool[i], args[i]))
                       <=> (~Truthy(first) /\ Truthy(second))

\* C18 as stated: the second identifier is the key exactly when the first is not supplied
C18_Original ==
    \A i \in Invs :
        (tool[i] \in EitherOrTools /\ CredentialsPresent) =>
            LET first == FirstId(tool[i], args[i])
                second == SecondId(tool[i], args[i])
            IN  /\ (first # Undefined /\ second # Undefined) =>
                       KeyedBy(i, FirstKey(tool[i], args[i]))
                /\ KeyedBy(i, SecondKey(tool[i], args[i])) => first = Undefined

\* both tools were invoked with both identifiers and keyed their call by the first
C18_Witness ==
    \E i, j \in Invs :
        /\ CredentialsPresent
        /\ tool[i] = "bento_get_subscriber"
        /\ args[i].email = Email /\ args[i].uuid = Str("u-1")
        /\ calls[i][1].args = <<[email |-> Email]>>
        /\ tool[j] = "bento_check_blacklist"
        /\ args[j].domain = Str("example.com") /\ args[j].ip = Str("1.2.3.4")
        /\ calls[j][1].args = <<[domain |-> Str("example.com")]>>

(***************************************************************************)
(* C19: every presence check treats the empty string like an absent value. *)
(* A configuration value set to the empty string makes credential          *)
(* resolution fail with the missing-configuration message;                 *)
(* bento_update_email_template whose subject and html are each empty or    *)
(* absent is rejected with the either/or message; bento_get_subscriber     *)
(* with an empty uuid and no email, and bento_check_blacklist whose domain *)
(* and ip are each empty or absent, answer the guidance message.  In each  *)
(* case no remote call is issued.                                          *)
(***************************************************************************)
EmptyString == Str("")

\* v is absent or the empty string, and of v and w at least one is the empty string
Blank(v) == v \in {Undefined, EmptyString}

SomeEmpty(v, w) == Blank(v) /\ Blank(w) /\ EmptyString \in {v, w}

\* the tools that check their payload before resolving the credentials
CheckedTools ==
    {"bento_get_subscriber", "bento_check_blacklist",
     "bento_update_email_template", "bento_batch_import_subscribers"}

C19_EmptyIsAbsent ==
    \A i \in Invs :
        /\ ( /\ Active(i) /\ tool[i] \notin CheckedTools
             /\ \E n \in EnvNames : env[n] = EmptyString )
           => /\ pc[i] = "returned"
              /\ Text(i) = MissingEnvText
              /\ calls[i] = <<>>
        /\ ( /\ tool[i] = "bento_update_email_template"
             /\ SomeEmpty(args[i].subject, args[i].html) )
           => /\ pc[i] = "returned"
              /\ Text(i) = "Either subject or html (or both) is required to update"
              /\ calls[i] = <<>>
        /\ ( /\ tool[i] = "bento_get_subscriber"
             /\ args[i].email = Undefined /\ args[i].uuid = EmptyString )
           => /\ pc[i] = "returned"
              /\ Text(i) = "Either email or uuid is required"
              /\ calls[i] = <<>>
        /\ ( /\ tool[i] = "bento_check_blacklist"
             /\ SomeEmpty(args[i].domain, args[i].ip) )
           => /\ pc[i] = "returned"
              /\ Text(i) = "Either domain or ip is required"
              /\ calls[i] = <<>>

\* one key is the empty string and the others are set: an invocation failed on the
\* configuration while an update with an empty subject and no html was rejected
C19_Witness ==
    \E i, j \in Invs :
        /\ env["BENTO_SECRET_KEY"] = EmptyString
        /\ env["BENTO_PUBLISHABLE_KEY"] = Str("key")
        /\ env["BENTO_SITE_UUID"] = Str("key")
        /\ tool[i] = "bento_list_tags"
        /\ Text(i) = MissingEnvText
        /\ tool[j] = "bento_update_email_template"
        /\ args[j].subject = EmptyString /\ args[j].html = Undefined
        /\ Text(j) = "Either subject or html (or both) is required to update"
        /\ calls[j] = <<>>

(***************************************************************************)
(* C14: when connecting the server to the stdio transport fails, the       *)
(* process has written one line to stderr, "Fatal error: " followed by the *)
(* fault, has exited with status 1, has made no further connection attempt *)
(* and has served no invocation; when the connection succeeds the process  *)
(* is listening, has written the running notice, and has no exit status,   *)
(* however many invocations it goes on to serve.  Invocations are served   *)
(* only while the process is listening.                                    *)
(***************************************************************************)
\* no invocation is being served or has left anything behind
NoneServed ==
    \A i \in Invs :
        pc[i] = "idle" /\ calls[i] = <<>> /\ content[i] = <<>> /\ settled[i] = <<>>

FatalPrefix == "Fatal error: "

C14_Startup ==
    /\ mainPc \in {"connecting", "listening", "exited"}
    /\ mainPc = "connecting" => (stderr = <<>> /\ exitCode = <<>> /\ NoneServed)
    /\ mainPc = "exited" =>
           /\ exitCode = <<1>>
           /\ exitCode[1] # 0
           /\ Len(stderr) = 1
           /\ Len(stderr[1]) > Len(FatalPrefix)
           /\ SubSeq(stderr[1], 1, Len(FatalPrefix)) = FatalPrefix
           /\ NoneServed
    /\ mainPc = "listening" =>
           /\ exitCode = <<>>
           /\ stderr = <<"Bento MCP Server running on stdio">>
    /\ (\E i \in Invs : Active(i)) => mainPc = "listening"

\* the connection failed: the fault is on stderr and the exit status is 1
C14_Witness ==
    /\ mainPc = "exited"
    /\ exitCode = <<1>>
    /\ stderr = <<"Fatal error: Error: Request failed with status 401">>
    /\ NoneServed

(***************************************************************************)
(* C17 (as amended): handleError answers "Error: " followed by the message *)
(* exactly for Error instances; for every other thrown value it answers    *)
(* "Error: " followed by the string conversion of the value.  A thrown     *)
(* object that is not an Error instance is converted even when it carries  *)
(* a message field, which gives "Error: [object Object]"; a thrown         *)
(* primitive gives its own text.                                           *)
(***************************************************************************)
MessageObject == Obj(<<Prop("message", Str("not an Error instance"))>>)

C17_HandleError ==
    handled # <<>> =>
        /\ probe.t = "Error" => handled[1] = "Error: " \o probe.message
        /\ probe.t # "Error" => handled[1] = "Error: " \o JSString(probe)
        /\ probe = Err("Request failed with status 401") =>
               handled[1] = "Error: Request failed with status 401"
        /\ probe = Err("") => handled[1] = "Error: "
        /\ probe = MessageObject => handled[1] = "Error: [object Object]"
        /\ probe = Str("a") => handled[1] = "Error: a"
        /\ probe = Num(42) => handled[1] = "Error: 42"
        /\ probe = Bool(FALSE) => handled[1] = "Error: false"
        /\ probe = Null => handled[1] = "Error: null"
        /\ probe = Undefined => handled[1] = "Error: undefined"

\* C17 as stated: the message is used whenever the fault carries one
C17_Original ==
    handled # <<>> =>
        /\ probe.t = "Error" => handled[1] = "Error: " \o probe.message
        /\ HasMessageField(probe) => handled[1] = "Error: " \o MessageField(probe)
        /\ (probe.t # "Error" /\ ~HasMessageField(probe)) =>
               handled[1] = "Error: " \o JSString(probe)

\* handleError was applied to a thrown object that carries a message field
C17_Witness ==
    probe = MessageObject /\ handled = <<"Error: [object Object]">>

(***************************************************************************)
(* C15: in every interleaving of concurrent invocations, the remote call   *)
(* and the result text of each invocation are those of the same invocation *)
(* run alone: a function of its own tool and payload, the configuration,   *)
(* and the way its own remote call settled.  A slot no invocation occupies *)
(* holds nothing, so no invocation leaves anything for another to read.    *)
(***************************************************************************)
\* the state of invocation i
Slot(i) ==
    [pc |-> pc[i], tool |-> tool[i], args |-> args[i],
     calls |-> calls[i], content |-> content[i], settled |-> settled[i]]

IdleSlot ==
    [pc |-> "idle", tool |-> "", args |-> Undefined,
     calls |-> <<>>, content |-> <<>>, settled |-> <<>>]

\* where an invocation stands after a stretch ended with outcome, given where it stood
After(slot, outcome) ==
    [slot EXCEPT
        !.pc = CASE outcome.kind = "return" -> "returned"
                 [] outcome.kind = "await" -> "awaiting"
                 [] OTHER -> "escaped",
        !.content = IF outcome.kind = "return" THEN outcome.content ELSE @,
        !.calls = IF outcome.kind = "await" THEN Append(@, outcome.call) ELSE @]

\* the invocation of name on raw run by itself under configuration e, its remote call
\* (if it issues one) settled as history tells (<<>>: not yet)
RunAlone(name, raw, e, history) ==
    LET started == After([IdleSlot EXCEPT !.tool = name, !.args = raw],
                         Handler(name, Schema(name, raw), e))
    IN  IF started.pc # "awaiting" \/ history = <<>> THEN started
        ELSE After([started EXCEPT !.settled = history], AfterAwait(name, history[1]))

C15_Independent ==
    \A i \in Invs :
        IF Active(i) THEN Slot(i) = RunAlone(tool[i], args[i], env, settled[i])
        ELSE Slot(i) = IdleSlot

\* two invocations overlap: one is suspended on its remote call while another, invoked
\* with a different tool, has its result
C15_Witness ==
    \E i, j \in Invs :
        /\ i # j
        /\ pc[i] = "awaiting" /\ tool[i] = "bento_get_subscriber"
        /\ calls[i][1].args = <<[email |-> Email]>>
        /\ Resolved(j) /\ tool[j] = "bento_list_tags"
        /\ settled[j][1].value = Num(2) /\ Text(j) = "Count: 2"

(***************************************************************************)
(* C16: the credentials are read from the environment anew by every        *)
(* invocation, at the step where it resolves them, and nothing is kept     *)
(* from one invocation to the next.  Whatever earlier invocations did, an  *)
(* invocation that starts while the three values are set issues its call   *)
(* on a client built from the values as they are at that step, and one     *)
(* that starts while any value is unset or empty ends with the             *)
(* missing-configuration text and issues no call; an invocation already    *)
(* suspended on its call keeps the client it built, whatever the           *)
(* environment becomes.                                                    *)
(***************************************************************************)
\* the client built from the environment as it is now
ClientNow ==
    [authentication |-> [publishableKey |-> env["BENTO_PUBLISHABLE_KEY"],
                         secretKey |-> env["BENTO_SECRET_KEY"]],
     siteUuid |-> env["BENTO_SITE_UUID"]]

C16_ReadPerInvocation ==
    [][\A i \in Invs :
         /\ (pc[i] = "idle" /\ pc'[i] # "idle" /\ tool'[i] \in EnvTools) =>
                IF \A n \in EnvNames : env[n] \notin {Undefined, EmptyString}
                THEN /\ pc'[i] = "awaiting"
                     /\ Len(calls'[i]) = 1
                     /\ calls'[i][1].client = ClientNow
                ELSE /\ pc'[i] = "returned"
                     /\ calls'[i] = <<>>
                     /\ content'[i] = <<[type |-> "text", text |-> MissingEnvText]>>
         /\ pc[i] = "awaiting" => calls'[i] = calls[i]
      ]_vars

\* a value is unset now: the invocation that started before still holds the call it
\* issued, and the one that started after has ended with the missing-configuration text
C16_Witness ==
    \E i, j \in Invs :
        /\ env["BENTO_SECRET_KEY"] = Undefined
        /\ tool[i] = "bento_create_subscriber"
        /\ Len(calls[i]) = 1
        /\ calls[i][1].client.authentication.secretKey = Str("key")
        /\ tool[j] = "bento_create_subscriber"
        /\ pc[j] = "returned"
        /\ calls[j] = <<>>
        /\ Text(j) = MissingEnvText

====
